---- MODULE Spec2Model ----
(***************************************************************************)
(* Model of youtube-8m-wangheda/inference-sample-error.py: the batched     *)
(* error-rate inference driver.  main() validates the flags and builds the *)
(* input graph (a one-epoch filename queue, num_readers reader threads and *)
(* a batch_join staging queue of capacity 3 * batch_size); inference()     *)
(* opens the output file, restores the checkpoint, starts the queue-runner *)
(* threads and runs the consumer loop, which writes one line per example   *)
(* through format_lines until the staging queue reports OutOfRange.        *)
(***************************************************************************)
EXTENDS Integers, Sequences, FiniteSets, TLC

\* ---------------------------------------------------------------- bounds
\* Largest number of files the glob may match.
MaxFiles == 2
\* Largest number of records in the matched files together.
MaxRecords == 4
\* Largest --num_readers drawn.
MaxReaders == 2
\* Largest --batch_size drawn.
MaxBatch == 2
\* Number of classes (width of a label row and of a prediction row).
NumClasses == 3
\* Prediction scores are drawn from 0..MaxPred.
MaxPred == 2

\* ------------------------------------------------------ program constants
\* A producer that goes through the file list twice.
TwoEpochs == 1 + 1
\* string_input_producer(files, num_epochs=1, shuffle=False)
num_epochs == 1
\* tf.train.batch_join(..., capacity=batch_size * 3, ...)
CapacityFactor == 3

Classes == 1..NumClasses
Readers == 1..MaxReaders

Min(a, b) == IF a <= b THEN a ELSE b
Max(a, b) == IF a >= b THEN a ELSE b

RECURSIVE Gcd(_, _)
Gcd(a, b) == IF b = 0 THEN a ELSE Gcd(b, a % b)

RECURSIVE Flatten(_)
Flatten(ss) == IF ss = <<>> THEN <<>> ELSE Head(ss) \o Flatten(Tail(ss))

Range(s) == {s[i] : i \in DOMAIN s}

RECURSIVE SumSeq(_)
SumSeq(s) == IF s = <<>> THEN 0 ELSE Head(s) + SumSeq(Tail(s))

\* ------------------------------------------------------------ input data
\* The record at position i of matched file f has video id ExampleId(f, i);
\* ExampleLabels is its label row (the set of classes whose label is 1) and
\* ExamplePred the prediction row the restored model computes for it.
ExampleId(f, i) == (f - 1) * MaxRecords + i
ExampleLabels(id) == {c \in Classes : c <= id % (NumClasses + 1)}
ExamplePred(id) == [c \in Classes |-> (id + c) % (MaxPred + 1)]
\* The row sess.run fetches for a dequeued example: video_id_batch_val,
\* labels_batch_val and predictions_val at the same index.
Row(id) == [id |-> id, labels |-> ExampleLabels(id), pred |-> ExamplePred(id)]

\* The ids of records off+1 .. off+n of file f, in file order.
FileRecords(f, off, n) == [j \in 1..n |-> ExampleId(f, off + j)]

\* ---------------------------------------------------------- format_lines
\* top_k = max(int(numpy.sum(labels[video_index])), 1)
TopK(labels) == Max(Cardinality(labels), 1)

\* numpy.argpartition(predictions[video_index], -top_k)[-top_k:] : a set of
\* top_k indices none of which scores below an index left out.  Which of
\* several tied indices is taken is the partition algorithm's choice, so
\* every such set is a possible outcome.
TopIndices(pred, k) ==
  {S \in SUBSET Classes :
     /\ Cardinality(S) = k
     /\ \A c \in S : \A d \in Classes \ S : pred[c] >= pred[d]}

\* A score that reports perr itself, the hit rate, instead of 1 - perr.
HitRate(labels, top, k) ==
  LET hits == Cardinality(top \cap labels)
      g == Gcd(k, hits)
  IN  [num |-> hits \div g, den |-> k \div g]

\* A count of the indices picked, whatever their labels.
PositivesCountingPicked(labels, top) == Cardinality(top)

\* positives = [labels[video_index][class_index] for class_index in top_indices]
\* perr = sum(positives) / float(top_k) ; the value written is 1 - perr,
\* kept as the reduced fraction num/den.
Positives(labels, top) == Cardinality(top \cap labels)
ErrorRate(labels, top, k) ==
  LET miss == k - Positives(labels, top)
      g == Gcd(k, miss)
  IN  [num |-> miss \div g, den |-> k \div g]

\* A line that takes its video id from the mirrored row of the batch.
FormatLineMirrored(video_ids, predictions, labels, video_index, top) ==
  [video_id |-> video_ids[Len(video_ids) + 1 - video_index],
   score |-> ErrorRate(labels[video_index], top, TopK(labels[video_index]))]

\* The line format_lines yields for row video_index, given the partition's
\* outcome top.
FormatLine(video_ids, predictions, labels, video_index, top) ==
  [video_id |-> video_ids[video_index],
   score |-> ErrorRate(labels[video_index], top, TopK(labels[video_index]))]

\* The lines format_lines yields from row video_index on: the generator's
\* loop, for video_index in range(batch_size), one line per row in row order.
\* It is a set of line lists, one for each outcome of the partitions.
RECURSIVE FormatRows(_, _, _, _)
FormatRows(video_ids, predictions, labels, video_index) ==
  IF video_index > Len(video_ids) THEN {<<>>}
  ELSE {<<FormatLine(video_ids, predictions, labels, video_index, top)>> \o rest :
          top \in TopIndices(predictions[video_index], TopK(labels[video_index])),
          rest \in FormatRows(video_ids, predictions, labels, video_index + 1)}

format_lines(video_ids, predictions, labels) ==
  FormatRows(video_ids, predictions, labels, 1)

\* ------------------------------------------------------- queue operations
\* capacity=batch_size * 3
Capacity(batch_size) == batch_size * CapacityFactor

\* enqueue_many on a queue that takes every element whatever it holds.
EnqueueManyOverfilling(items, elems, capacity) ==
  [items |-> items \o elems, rest |-> <<>>]

\* enqueue_many that gives up what does not fit instead of staying pending.
EnqueueManyDropping(items, elems, capacity) ==
  LET n == Min(Len(elems), capacity - Len(items))
  IN  [items |-> items \o SubSeq(elems, 1, n), rest |-> <<>>]

\* enqueue_many on a bounded FIFO queue: the elements that fit are appended
\* in order; the others stay pending in the blocked enqueue.
EnqueueMany(items, elems, capacity) ==
  LET n == Min(Len(elems), capacity - Len(items))
  IN  [items |-> items \o SubSeq(elems, 1, n),
       rest |-> SubSeq(elems, n + 1, Len(elems))]

\* A dequeue that returns whatever is staged, without waiting for batch_size.
CanDequeueAny(q, batch_size) == Len(q.items) > 0

\* allow_smaller_final_batch=True makes the dequeue a dequeue_up_to: it can
\* return once batch_size elements are staged, or once the queue is closed
\* and holds at least one element.
CanDequeueUpTo(q, batch_size) ==
  \/ Len(q.items) >= batch_size
  \/ q.closed /\ Len(q.items) > 0

\* What dequeue_up_to returns and what it leaves.
DequeueUpTo(q, batch_size) ==
  LET n == Min(Len(q.items), batch_size)
  IN  [batch |-> SubSeq(q.items, 1, n),
       items |-> SubSeq(q.items, n + 1, Len(q.items))]

\* dequeue_up_to raises OutOfRangeError: the queue is closed and empty.
QueueExhausted(q) == q.closed /\ q.items = <<>>

\* ------------------------------------------------------------------ state
VARIABLES
  FLAGS,                  \* the flags read more than once during the run
  files,                  \* gfile.Glob(data_pattern): record count of each match
  checkpoint_found,       \* a checkpoint exists at the configured location
  previous_output,        \* what an earlier run on this input wrote, if any
  latest_checkpoint,      \* inference()'s local: how the checkpoint was named
  out_disk,               \* the output file on disk: [exists, lines]
  pc,                     \* position of the main thread
  err,                    \* the exception the main thread is raising
  out_file,               \* the open()ed file object: [state, buf]
  closes,                 \* how often out_file was closed
  restores,               \* how often saver.restore completed
  coord,                  \* tf.train.Coordinator: [stop, exc]
  joined,                 \* coord.join(threads) has waited for the threads
  filename_queue,         \* string_input_producer's queue: [items, closed]
  epochs,                 \* the producer's epoch counter
  producer,               \* the filename queue-runner thread
  batch_queue,            \* batch_join's staging queue: [items, closed]
  runs_per_session,       \* reader threads of the batch queue runner still running
  reader,                 \* reader threads: [st, cur, off, pend]
  cancelled,              \* the close-on-stop threads have closed the queues
  num_examples_processed, \* the consumer loop's counter
  batch,                  \* the rows fetched by the current sess.run
  batches,                \* ids of every batch fetched so far
  decoded,                \* what the readers have read: [ids, count, taken]
  eos                     \* OutOfRangeError was caught by the consumer loop

vars ==
  <<FLAGS, files, checkpoint_found, previous_output, latest_checkpoint, out_disk, pc, err, out_file, closes, restores,
    coord, joined, filename_queue, epochs, producer, batch_queue,
    runs_per_session, reader, cancelled, num_examples_processed, batch, batches,
    decoded, eos>>

envVars == <<FLAGS, files, checkpoint_found, previous_output>>
ckptVars == <<latest_checkpoint, restores>>
sinkVars == <<out_disk, out_file, closes>>
threadVars ==
  <<filename_queue, epochs, producer, batch_queue, runs_per_session, reader,
    cancelled, decoded>>
loopVars == <<num_examples_processed, batch, batches, eos>>

HeaderLine == [kind |-> "VideoId,LabelConfidencePairs", video_id |-> 0,
               score |-> [num |-> 0, den |-> 1]]
RecordLine(l) == [kind |-> "record", video_id |-> l.video_id, score |-> l.score]
OldLine == [kind |-> "old", video_id |-> 0, score |-> [num |-> 0, den |-> 1]]

IdleReader == [st |-> "off", cur |-> 0, off |-> 0, pend |-> <<>>]

FileLists ==
  {fl \in UNION {[1..n -> 0..MaxRecords] : n \in 0..MaxFiles} :
     SumSeq(fl) <= MaxRecords}

Init ==
  /\ FLAGS \in [model : {"YouShouldSpecifyAModel", "Model"},
                output_file : {"", "out"},
                input_data_pattern : {"", "pattern"},
                frame_features : BOOLEAN,
                batch_size : 1..MaxBatch,
                num_readers : 1..MaxReaders]
  /\ files \in FileLists
  /\ (FLAGS.input_data_pattern = "" => files = <<>>)
  /\ checkpoint_found \in BOOLEAN
  /\ previous_output = <<>>
  /\ latest_checkpoint = "unset"
  /\ out_disk \in {[exists |-> FALSE, lines |-> <<>>],
                   [exists |-> TRUE, lines |-> <<OldLine>>]}
  /\ pc = "main"
  /\ err = "none"
  /\ out_file = [state |-> "unopened", buf |-> <<>>]
  /\ closes = 0
  /\ restores = 0
  /\ coord = [stop |-> FALSE, exc |-> FALSE]
  /\ joined = FALSE
  /\ filename_queue = [items |-> <<>>, closed |-> FALSE]
  /\ epochs = 0
  /\ producer = "off"
  /\ batch_queue = [items |-> <<>>, closed |-> FALSE]
  /\ runs_per_session = 0
  /\ reader = [r \in Readers |-> IdleReader]
  /\ cancelled = FALSE
  /\ num_examples_processed = 0
  /\ batch = <<>>
  /\ batches = <<>>
  /\ decoded = [ids |-> {}, count |-> 0, taken |-> <<>>]
  /\ eos = FALSE

\* An exception leaves main(): the process ends with it.
Raise(e) == pc' = "failed" /\ err' = e

\* ------------------------------------------------------------------ main
\* A validation that tests the input pattern only.
MainValidatePatternOnly ==
  /\ pc = "main"
  /\ IF FLAGS.input_data_pattern = ""
       THEN Raise("ValueError")
       ELSE pc' = "find_class" /\ err' = err
  /\ UNCHANGED <<envVars, sinkVars, threadVars, loopVars, ckptVars, coord, joined>>

\* if FLAGS.output_file is "": raise ValueError ; then the same test of
\* FLAGS.input_data_pattern.
MainValidate ==
  /\ pc = "main"
  /\ IF FLAGS.output_file = "" \/ FLAGS.input_data_pattern = ""
       THEN Raise("ValueError")
       ELSE pc' = "find_class" /\ err' = err
  /\ UNCHANGED <<envVars, sinkVars, threadVars, loopVars, ckptVars, coord, joined>>

\* find_class_by_name(FLAGS.model, ...): next() over the modules that define
\* the name raises StopIteration when none does, as for the flag's default
\* "YouShouldSpecifyAModel".
FindClass ==
  /\ pc = "find_class"
  /\ IF FLAGS.model = "YouShouldSpecifyAModel"
       THEN Raise("StopIteration")
       ELSE pc' = "build_graph" /\ err' = err
  /\ UNCHANGED <<envVars, sinkVars, threadVars, loopVars, ckptVars, coord, joined>>

\* A graph construction that accepts an empty list of files.
GetInputDataTensorsUnchecked ==
  /\ pc = "build_graph"
  /\ pc' = "open" /\ err' = err
  /\ UNCHANGED <<envVars, sinkVars, threadVars, loopVars, ckptVars, coord, joined>>

\* build_graph -> get_input_data_tensors: files = gfile.Glob(data_pattern);
\* if not files: raise IOError.  Otherwise the queues and the reader ops are
\* added to the graph; nothing runs yet.
GetInputDataTensors ==
  /\ pc = "build_graph"
  /\ IF files = <<>>
       THEN Raise("IOError")
       ELSE pc' = "open" /\ err' = err
  /\ UNCHANGED <<envVars, sinkVars, threadVars, loopVars, ckptVars, coord, joined>>

\* ------------------------------------------------------------- inference
\* An open that keeps what the file holds (mode "a").
OpenOutFileAppending ==
  /\ pc = "open"
  /\ out_disk' = [exists |-> TRUE, lines |-> out_disk.lines]
  /\ out_file' = [state |-> "open", buf |-> <<>>]
  /\ pc' = "checkpoint"
  /\ UNCHANGED <<envVars, threadVars, loopVars, err, closes, ckptVars, coord, joined>>

\* with tf.Session() as sess, open(out_file_location, "w") as out_file:
\* the file is created, or truncated when it exists.
OpenOutFile ==
  /\ pc = "open"
  /\ out_disk' = [exists |-> TRUE, lines |-> <<>>]
  /\ out_file' = [state |-> "open", buf |-> <<>>]
  /\ pc' = "checkpoint"
  /\ UNCHANGED <<envVars, threadVars, loopVars, err, closes, ckptVars, coord, joined>>

\* A lookup after which the threads are started on the initial variables,
\* without a restore.
LookupCheckpointOnly ==
  /\ pc = "checkpoint"
  /\ latest_checkpoint' = IF checkpoint_found THEN "latest" ELSE "None"
  /\ IF latest_checkpoint' = "None"
       THEN pc' = "unwind" /\ err' = "CheckpointNotFound"
       ELSE pc' = "start" /\ err' = err
  /\ UNCHANGED <<envVars, sinkVars, threadVars, loopVars, restores, coord, joined>>

\* if FLAGS.model_checkpoint_path: latest_checkpoint = that path, unchecked;
\* else latest_checkpoint = tf.train.latest_checkpoint(train_dir), which is
\* None when the directory holds no checkpoint, and then the code raises.
\* FLAGS.model_checkpoint_path is read here only.
LookupCheckpoint ==
  /\ pc = "checkpoint"
  /\ \E model_checkpoint_path \in {"", "ckpt"} :
       /\ latest_checkpoint' =
            IF model_checkpoint_path # "" THEN "explicit"
            ELSE IF checkpoint_found THEN "latest" ELSE "None"
       /\ IF latest_checkpoint' = "None"
            THEN pc' = "unwind" /\ err' = "CheckpointNotFound"
            ELSE pc' = "restore" /\ err' = err
  /\ UNCHANGED <<envVars, sinkVars, threadVars, loopVars, restores, coord, joined>>

\* A restore that goes on with the initial variables when the path names no
\* checkpoint.
RestoreCheckpointLenient ==
  /\ pc = "restore"
  /\ pc' = "start" /\ err' = err
  /\ restores' = IF checkpoint_found THEN restores + 1 ELSE restores
  /\ latest_checkpoint' = IF checkpoint_found THEN "restored" ELSE latest_checkpoint
  /\ UNCHANGED <<envVars, sinkVars, threadVars, loopVars, coord, joined>>

\* saver.restore(sess, latest_checkpoint): raises when the path names no
\* checkpoint (only an explicit --model_checkpoint_path gets here unchecked).
\* The collection lookups and the local-variable initialisation that follow
\* touch nothing the threads or the sink see.
RestoreCheckpoint ==
  /\ pc = "restore"
  /\ IF checkpoint_found
       THEN pc' = "start" /\ restores' = restores + 1 /\ err' = err
            /\ latest_checkpoint' = "restored"
       ELSE pc' = "unwind" /\ err' = "RestoreError" /\ restores' = restores
            /\ latest_checkpoint' = latest_checkpoint
  /\ UNCHANGED <<envVars, sinkVars, threadVars, loopVars, coord, joined>>

\* coord = tf.train.Coordinator()
\* threads = tf.train.start_queue_runners(sess=sess, coord=coord):
\* the filename producer, num_readers reader threads, and one close-on-stop
\* thread for each of the two queue runners.
StartQueueRunners ==
  /\ pc = "start"
  /\ producer' = "run"
  /\ reader' = [r \in Readers |->
                  IF r <= FLAGS.num_readers
                    THEN [IdleReader EXCEPT !.st = "idle"] ELSE IdleReader]
  /\ runs_per_session' = FLAGS.num_readers
  /\ pc' = "header"
  /\ UNCHANGED <<envVars, sinkVars, loopVars, err, ckptVars, coord, joined,
                 filename_queue, epochs, batch_queue, cancelled, decoded>>

\* while not coord.should_stop(): the loop test, read where the main thread
\* arrives at it.  The statement before it touches nothing another thread
\* sees, so the test is taken in the same step.  When it fails the loop is
\* left without an exception; the finally clause's coord.request_stop() then
\* changes nothing, since stop is already requested.
LoopTest == IF coord.stop THEN "flush" ELSE "run"

\* A start of the loop that writes no header.
WriteHeaderSkipped ==
  /\ pc = "header"
  /\ num_examples_processed' = 0
  /\ pc' = LoopTest
  /\ UNCHANGED <<envVars, threadVars, sinkVars, err, ckptVars, coord,
                 joined, batch, batches, eos>>

\* num_examples_processed = 0 ; out_file.write("VideoId,LabelConfidencePairs\n")
WriteHeader ==
  /\ pc = "header"
  /\ num_examples_processed' = 0
  /\ out_file' = [out_file EXCEPT !.buf = Append(@, HeaderLine)]
  /\ pc' = LoopTest
  /\ UNCHANGED <<envVars, threadVars, out_disk, closes, err, ckptVars, coord,
                 joined, batch, batches, eos>>

\* sess.run([predictions_tensor, video_id_tensor, labels_tensor]): one
\* dequeue_up_to of the staging queue; the three fetched arrays hold the rows
\* of the same dequeued examples, in the same order.
SessRun ==
  /\ pc = "run"
  /\ CanDequeueUpTo(batch_queue, FLAGS.batch_size)
  /\ LET d == DequeueUpTo(batch_queue, FLAGS.batch_size)
     IN  /\ batch' = [i \in 1..Len(d.batch) |-> Row(d.batch[i])]
         /\ batch_queue' = [batch_queue EXCEPT !.items = d.items]
         /\ batches' = Append(batches, d.batch)
  /\ pc' = "write"
  /\ UNCHANGED <<envVars, sinkVars, err, ckptVars, coord, joined, filename_queue,
                 epochs, producer, runs_per_session, reader, cancelled, decoded,
                 num_examples_processed, eos>>

\* except tf.errors.OutOfRangeError: the staging queue is closed and empty.
\* finally: coord.request_stop()
CatchOutOfRange ==
  /\ pc = "run"
  /\ QueueExhausted(batch_queue)
  /\ eos' = TRUE
  /\ coord' = [coord EXCEPT !.stop = TRUE]
  /\ pc' = "flush"
  /\ UNCHANGED <<envVars, sinkVars, threadVars, err, ckptVars, joined,
                 num_examples_processed, batch, batches>>

\* What closing the file object does: the buffer reaches the disk.
CloseFile ==
  /\ out_disk' = [out_disk EXCEPT !.lines = @ \o out_file.buf]
  /\ out_file' = [state |-> "closed", buf |-> <<>>]
  /\ closes' = closes + 1

\* sess.run raises anything else (the scoring fails): no except clause takes
\* it; finally: coord.request_stop(), and the exception goes on up: the
\* flush and the join that follow the try statement are skipped, the with
\* statement closes out_file, and the exception leaves main().
SessRunFails ==
  /\ pc = "run"
  /\ err' = "RuntimeError"
  /\ coord' = [coord EXCEPT !.stop = TRUE]
  /\ CloseFile
  /\ pc' = "failed"
  /\ UNCHANGED <<envVars, threadVars, loopVars, ckptVars, joined>>

\* The rows handed to format_lines.
VideoIds(b) == [i \in 1..Len(b) |-> b[i].id]
Predictions(b) == [i \in 1..Len(b) |-> b[i].pred]
Labels(b) == [i \in 1..Len(b) |-> b[i].labels]

\* A loop body that counts a full batch for every batch it writes.
WriteLinesCountingFullBatch ==
  /\ pc = "write"
  /\ num_examples_processed' = num_examples_processed + FLAGS.batch_size
  /\ \E lines \in format_lines(VideoIds(batch), Predictions(batch), Labels(batch)) :
       out_file' = [out_file EXCEPT
                      !.buf = @ \o [i \in 1..Len(lines) |-> RecordLine(lines[i])]]
  /\ pc' = LoopTest
  /\ UNCHANGED <<envVars, threadVars, out_disk, closes, err, ckptVars, coord,
                 joined, batch, batches, eos>>

\* num_examples_processed += len(video_id_batch_val)
\* out_file.writelines([line for line in format_lines(...)])
WriteLines ==
  /\ pc = "write"
  /\ num_examples_processed' = num_examples_processed + Len(VideoIds(batch))
  /\ \E lines \in format_lines(VideoIds(batch), Predictions(batch), Labels(batch)) :
       out_file' = [out_file EXCEPT
                      !.buf = @ \o [i \in 1..Len(lines) |-> RecordLine(lines[i])]]
  /\ pc' = LoopTest
  /\ UNCHANGED <<envVars, threadVars, out_disk, closes, err, ckptVars, coord,
                 joined, batch, batches, eos>>

\* The buffered lines reach the disk.
Flush ==
  /\ pc = "flush"
  /\ out_disk' = [out_disk EXCEPT !.lines = @ \o out_file.buf]
  /\ out_file' = [out_file EXCEPT !.buf = <<>>]
  /\ pc' = "join"
  /\ UNCHANGED <<envVars, threadVars, loopVars, closes, err, ckptVars, coord, joined>>

\* coord.join(threads): waits until every thread has ended.  After
\* request_stop a thread at the top of its loop sees should_stop() and leaves,
\* and once the close-on-stop threads have closed the queues with
\* cancel_pending_enqueues a blocked enqueue is cancelled (what it held is
\* lost) and its thread leaves too.  Then join re-raises the exception a
\* thread passed to request_stop, if any.
ThreadsEnd ==
  /\ producer' = "done"
  /\ reader' = [r \in Readers |->
                  IF reader[r].st = "off" THEN reader[r]
                  ELSE [st |-> "done", cur |-> 0, off |-> 0, pend |-> <<>>]]
  /\ runs_per_session' = 0

\* A join that returns without waiting for the threads.
JoinWithoutWaiting ==
  /\ pc = "join"
  /\ pc' = "close"
  /\ UNCHANGED <<envVars, sinkVars, threadVars, loopVars, ckptVars, coord, err,
                 joined>>

Join ==
  /\ pc = "join"
  /\ coord.stop /\ cancelled
  /\ ThreadsEnd
  /\ joined' = TRUE
  /\ IF coord.exc
       THEN pc' = "unwind" /\ err' = "ReaderError"
       ELSE pc' = "close" /\ err' = err
  /\ UNCHANGED <<envVars, sinkVars, loopVars, ckptVars, coord, filename_queue,
                 epochs, batch_queue, cancelled, decoded>>

\* sess.close() ; the with statement then closes out_file and inference()
\* and main() return.
CloseAndReturn ==
  /\ pc = "close"
  /\ CloseFile
  /\ pc' = "done"
  /\ UNCHANGED <<envVars, threadVars, loopVars, err, ckptVars, coord, joined>>

\* An exception leaves the with statement: out_file is closed on the way out
\* and the exception leaves inference() and main().
Unwind ==
  /\ pc = "unwind"
  /\ CloseFile
  /\ pc' = "failed"
  /\ UNCHANGED <<envVars, threadVars, loopVars, err, ckptVars, coord, joined>>

\* -------------------------------------------------- queue-runner threads
\* The threads are daemon threads of the process: they run from
\* start_queue_runners until the main thread has left main().
ThreadsAlive == producer # "off" /\ pc \notin {"done", "failed"}

\* string_input_producer(files, num_epochs=1, shuffle=False): one run of the
\* producer's enqueue op counts an epoch and enqueues every file name, in
\* order (the matched list is shorter than the queue's capacity).
ProducerEnqueue ==
  /\ ThreadsAlive
  /\ producer = "run" /\ ~coord.stop
  /\ epochs < num_epochs
  /\ epochs' = epochs + 1
  /\ filename_queue' =
       [filename_queue EXCEPT !.items = @ \o [f \in 1..Len(files) |-> f]]
  /\ UNCHANGED <<envVars, sinkVars, loopVars, pc, err, ckptVars, coord, joined,
                 producer, batch_queue, runs_per_session, reader, cancelled, decoded>>

\* The epoch limit is reached: the enqueue op raises OutOfRange and the queue
\* runner closes the filename queue.
ProducerOutOfRange ==
  /\ ThreadsAlive
  /\ producer = "run" /\ ~coord.stop
  /\ epochs = num_epochs
  /\ filename_queue' = [filename_queue EXCEPT !.closed = TRUE]
  /\ producer' = "done"
  /\ UNCHANGED <<envVars, sinkVars, loopVars, pc, err, ckptVars, coord, joined,
                 epochs, batch_queue, runs_per_session, reader, cancelled, decoded>>

\* A queue runner whose last thread out leaves the staging queue open.
ReaderEndsLeavingOpen(r, closes_queue) ==
  /\ reader' = [reader EXCEPT ![r] = [st |-> "done", cur |-> 0, off |-> 0, pend |-> <<>>]]
  /\ runs_per_session' = runs_per_session - 1
  /\ batch_queue' = batch_queue

\* A reader thread's step ends: the queue runner counts it out, and the last
\* one out after a closed-queue exception closes the staging queue.
ReaderEnds(r, closes_queue) ==
  /\ reader' = [reader EXCEPT ![r] = [st |-> "done", cur |-> 0, off |-> 0, pend |-> <<>>]]
  /\ runs_per_session' = runs_per_session - 1
  /\ batch_queue' =
       IF closes_queue /\ runs_per_session = 1
         THEN [batch_queue EXCEPT !.closed = TRUE] ELSE batch_queue

\* How many records one run of a reader's op takes from a file that still
\* has `left` records.  main() picks the reader class by FLAGS.frame_features:
\* YT8MFrameFeatureReader reads one record per run, and
\* YT8MAggregatedFeatureReader reads up to a block of records that is larger
\* than any file drawn here, so it takes what is left of the file.
ReadCount(frame_features, left) == IF frame_features THEN 1 ELSE left

\* reader.prepare_reader(filename_queue), one run of reader r's enqueue op:
\* the reader goes on with its current file, or takes the next file name off
\* the shared queue, and reads records of the file in order.  A file without
\* records is finished at once and yields nothing.
ReaderRead(r) ==
  /\ ThreadsAlive
  /\ reader[r].st = "idle" /\ ~coord.stop
  /\ LET taking == reader[r].cur = 0
         f == IF taking THEN Head(filename_queue.items) ELSE reader[r].cur
         off == IF taking THEN 0 ELSE reader[r].off
         n == ReadCount(FLAGS.frame_features, files[f] - off)
         taken == IF taking THEN Append(decoded.taken, f) ELSE decoded.taken
     IN  /\ taking => filename_queue.items # <<>>
         /\ filename_queue' =
              IF taking THEN [filename_queue EXCEPT !.items = Tail(@)]
                        ELSE filename_queue
         /\ IF files[f] = 0
              THEN /\ reader' = [reader EXCEPT ![r] = [@ EXCEPT !.cur = 0, !.off = 0]]
                   /\ decoded' = [decoded EXCEPT !.taken = taken]
              ELSE /\ reader' = [reader EXCEPT ![r] =
                        [st |-> "enq",
                         cur |-> IF off + n = files[f] THEN 0 ELSE f,
                         off |-> IF off + n = files[f] THEN 0 ELSE off + n,
                         pend |-> FileRecords(f, off, n)]]
                   /\ decoded' =
                        [ids |-> decoded.ids \cup Range(FileRecords(f, off, n)),
                         count |-> decoded.count + n,
                         taken |-> taken]
  /\ UNCHANGED <<envVars, sinkVars, loopVars, pc, err, ckptVars, coord, joined,
                 epochs, producer, batch_queue, runs_per_session, cancelled>>

\* tf.train.batch_join(..., capacity=batch_size * 3, enqueue_many=True): the
\* records read are enqueued as far as the staging queue has room; the thread
\* stays in the enqueue until all of them are in.
ReaderEnqueue(r) ==
  /\ ThreadsAlive
  /\ reader[r].st = "enq"
  /\ ~batch_queue.closed
  /\ Len(batch_queue.items) < Capacity(FLAGS.batch_size)
  /\ LET e == EnqueueMany(batch_queue.items, reader[r].pend, Capacity(FLAGS.batch_size))
     IN  /\ batch_queue' = [batch_queue EXCEPT !.items = e.items]
         /\ reader' = [reader EXCEPT ![r] =
              [@ EXCEPT !.pend = e.rest,
                        !.st = IF e.rest = <<>> THEN "idle" ELSE "enq"]]
  /\ UNCHANGED <<envVars, sinkVars, loopVars, pc, err, ckptVars, coord, joined,
                 filename_queue, epochs, producer, runs_per_session, cancelled, decoded>>

\* The filename queue is closed and empty: the reader's op raises OutOfRange,
\* the thread ends, and the last reader out closes the staging queue.
ReaderOutOfRange(r) ==
  /\ ThreadsAlive
  /\ reader[r].st = "idle" /\ ~coord.stop
  /\ reader[r].cur = 0
  /\ QueueExhausted(filename_queue)
  /\ ReaderEnds(r, TRUE)
  /\ UNCHANGED <<envVars, sinkVars, loopVars, pc, err, ckptVars, coord, joined,
                 filename_queue, epochs, producer, cancelled, decoded>>

\* The reader's op raises anything but a closed-queue exception (a record
\* that does not parse): the queue runner passes it to coord.request_stop.
\* After that no other reader can fail this way (stop is requested), and the
\* reader threads are interchangeable, so Next lets the thread numbered 1 be
\* the one that fails.
ReaderFails(r) ==
  /\ ThreadsAlive
  /\ reader[r].st = "idle" /\ ~coord.stop
  /\ reader[r].cur # 0 \/ filename_queue.items # <<>>
  /\ ReaderEnds(r, FALSE)
  /\ coord' = [stop |-> TRUE, exc |-> TRUE]
  /\ UNCHANGED <<envVars, sinkVars, loopVars, pc, err, ckptVars, joined,
                 filename_queue, epochs, producer, cancelled, decoded>>

\* The close-on-stop threads of the two queue runners: once the coordinator
\* is asked to stop they close their queues with cancel_pending_enqueues=True.
CloseOnStop ==
  /\ ThreadsAlive
  /\ coord.stop
  /\ ~cancelled
  /\ cancelled' = TRUE
  /\ filename_queue' = [filename_queue EXCEPT !.closed = TRUE]
  /\ batch_queue' = [batch_queue EXCEPT !.closed = TRUE]
  /\ UNCHANGED <<envVars, sinkVars, loopVars, pc, err, ckptVars, coord, joined,
                 epochs, producer, runs_per_session, reader, decoded>>

\* ------------------------------------------------------- specifications
Next ==
  \/ MainValidate
  \/ FindClass
  \/ GetInputDataTensors
  \/ OpenOutFile
  \/ LookupCheckpoint
  \/ RestoreCheckpoint
  \/ StartQueueRunners
  \/ WriteHeader
  \/ SessRun
  \/ CatchOutOfRange
  \/ SessRunFails
  \/ WriteLines
  \/ Flush
  \/ Join
  \/ CloseAndReturn
  \/ Unwind
  \/ ProducerEnqueue
  \/ ProducerOutOfRange
  \/ \E r \in Readers : ReaderRead(r)
  \/ \E r \in Readers : ReaderEnqueue(r)
  \/ \E r \in Readers : ReaderOutOfRange(r)
  \/ ReaderFails(1)
  \/ CloseOnStop

Spec == Init /\ [][Next]_vars

\* ------------------------------------------------------------ properties
\* The ids of the examples handed to the consumer loop so far, in order, and
\* the sizes of the batches that carried them.
Emitted == Flatten(batches)
Sizes == [i \in 1..Len(batches) |-> Len(batches[i])]

\* End-of-stream was reached and no thread reported an exception.
EndedNormally == eos /\ ~coord.exc

\* C1: in a run that ends normally the batch sizes sum to the number of
\* examples decoded by the readers, and every decoded example is in exactly
\* one batch: none is dropped and none is emitted twice.  At any point of any
\* run, no example has been emitted twice and every emitted one was decoded.
NoDropNoDuplicate ==
  LET emitted == Emitted
  IN  /\ Cardinality(Range(emitted)) = Len(emitted)
      /\ Range(emitted) \subseteq decoded.ids
      /\ EndedNormally =>
            /\ SumSeq(Sizes) = decoded.count
            /\ Range(emitted) = decoded.ids

\* Both readers have decoded records of a run that ended normally, and the
\* batches carry them in an order that is not the files' order.
NoDropNoDuplicateWitness ==
  /\ pc = "done" /\ EndedNormally
  /\ FLAGS.num_readers = 2 /\ Len(files) = 2
  /\ decoded.count = MaxRecords
  /\ \E i, j \in DOMAIN Emitted : i < j /\ Emitted[i] > Emitted[j]

Ceil(n, d) == (n + d - 1) \div d

\* The sizes of the batches n examples are split into: full batches, then
\* one batch with the remainder when there is one.
ExpectedSizes(n, batch_size) ==
  [i \in 1..Ceil(n, batch_size) |->
     IF i * batch_size <= n THEN batch_size ELSE n - (i - 1) * batch_size]

\* C2: every batch but the last of the run has exactly batch_size examples,
\* the last has between 1 and batch_size, no batch is empty, and a run that
\* ends normally with N examples has had ceil(N / batch_size) batches (5
\* examples with batch_size 2 give the sizes 2, 2, 1).
BatchSizes ==
  /\ \A i \in DOMAIN batches : Len(batches[i]) \in 1..FLAGS.batch_size
  /\ \A i \in 1..(Len(batches) - 1) : Len(batches[i]) = FLAGS.batch_size
  /\ EndedNormally =>
       /\ Len(batches) = Ceil(decoded.count, FLAGS.batch_size)
       /\ Sizes = ExpectedSizes(decoded.count, FLAGS.batch_size)
       /\ (decoded.count = 5 /\ FLAGS.batch_size = 2) => Sizes = <<2, 2, 1>>

\* Three examples and batch_size 2: a full batch and a last batch of one.
BatchSizesWitness ==
  /\ pc = "done" /\ EndedNormally
  /\ FLAGS.batch_size = 2 /\ decoded.count = 3
  /\ Sizes = <<2, 1>>

\* The scoring of one batch row in isolation: the consumer is about to write
\* the lines of a batch of one row whose labels and predictions are arbitrary.
FormatInit ==
  /\ FLAGS = [model |-> "Model", output_file |-> "out", input_data_pattern |-> "pattern",
              frame_features |-> TRUE, batch_size |-> 1,
              num_readers |-> 1]
  /\ files = <<1>>
  /\ checkpoint_found = TRUE
  /\ previous_output = <<>>
  /\ latest_checkpoint = "restored"
  /\ out_disk = [exists |-> TRUE, lines |-> <<>>]
  /\ pc = "write"
  /\ err = "none"
  /\ out_file = [state |-> "open", buf |-> <<HeaderLine>>]
  /\ closes = 0
  /\ restores = 1
  /\ coord = [stop |-> FALSE, exc |-> FALSE]
  /\ joined = FALSE
  /\ filename_queue = [items |-> <<>>, closed |-> FALSE]
  /\ epochs = 1
  /\ producer = "run"
  /\ batch_queue = [items |-> <<>>, closed |-> FALSE]
  /\ runs_per_session = 1
  /\ reader = [r \in Readers |->
                 IF r = 1 THEN [IdleReader EXCEPT !.st = "idle"] ELSE IdleReader]
  /\ cancelled = FALSE
  /\ num_examples_processed = 0
  /\ \E labels \in SUBSET Classes, pred \in [Classes -> 0..MaxPred] :
       batch = <<[id |-> ExampleId(1, 1), labels |-> labels, pred |-> pred]>>
  /\ batches = <<<<ExampleId(1, 1)>>>>
  /\ decoded = [ids |-> {ExampleId(1, 1)}, count |-> 1, taken |-> <<1>>]
  /\ eos = FALSE

FormatNext == WriteLines

FormatSpec == FormatInit /\ [][FormatNext]_vars

\* The lines written for the batch the consumer has just processed.
LastLines ==
  SubSeq(out_file.buf, Len(out_file.buf) - Len(batch) + 1, Len(out_file.buf))

\* The true labels are exactly the k strictly highest-scored classes.
LabelsStrictlyHighest(row) ==
  /\ row.labels # {}
  /\ \A c \in row.labels : \A d \in Classes \ row.labels : row.pred[c] > row.pred[d]

\* No true label is among the k highest-scored classes: at least k classes
\* score strictly above each of them.
LabelsAllOutranked(row, k) ==
  \A c \in row.labels :
    Cardinality({d \in Classes : row.pred[d] > row.pred[c]}) >= k

\* C3: for every row of a scored batch the score written is 1 - hits / k,
\* where k = max(1, number of true labels) and hits counts the true labels
\* among k class indices with the highest predictions; the score lies in
\* [0, 1]; it is 0 when the true labels are exactly the k strictly
\* highest-scored classes and 1 when no true label is among the k highest.
FormatLinesScore ==
  (pc \in {"run", "flush"} /\ batch # <<>>) =>
    \A i \in DOMAIN batch :
      LET row == batch[i]
          n == Cardinality(row.labels)
          k == IF n >= 1 THEN n ELSE 1
          score == LastLines[i].score
      IN  /\ \E S \in SUBSET Classes :
               /\ Cardinality(S) = k
               /\ \A c \in S : \A d \in Classes \ S : row.pred[c] >= row.pred[d]
               /\ score.num * k = score.den * (k - Cardinality(S \cap row.labels))
          /\ score.den > 0 /\ 0 <= score.num /\ score.num <= score.den
          /\ LabelsStrictlyHighest(row) => score.num = 0
          /\ LabelsAllOutranked(row, k) => score.num = score.den

\* A row with two true labels that are the two strictly highest-scored
\* classes has been written with score 0.
FormatLinesScoreWitness ==
  /\ pc \in {"run", "flush"} /\ Len(batch) = 1
  /\ Cardinality(batch[1].labels) = 2
  /\ LabelsStrictlyHighest(batch[1])
  /\ LastLines[1].score = [num |-> 0, den |-> 1]

\* Every line written since the output file was opened, and the record lines
\* among them.
Written == out_disk.lines \o out_file.buf
RecordLines == SelectSeq(Written, LAMBDA l : l.kind = "record")

\* The examples of the batches the consumer has finished processing.
Processed ==
  IF pc = "write" THEN Flatten(SubSeq(batches, 1, Len(batches) - 1)) ELSE Emitted

\* The score C3 describes, for a row whose k highest-scored classes are
\* determined (no tie at the cut).
RowScoreIs(row, score) ==
  LET n == Cardinality(row.labels)
      k == IF n >= 1 THEN n ELSE 1
  IN  \E S \in SUBSET Classes :
        /\ Cardinality(S) = k
        /\ \A c \in S : \A d \in Classes \ S : row.pred[c] >= row.pred[d]
        /\ score.den > 0
        /\ score.num * k = score.den * (k - Cardinality(S \cap row.labels))

\* C4: for every batch the consumer processes exactly one record line is
\* written per example, in the batch's row order, and line i carries the
\* video id of row i with the score computed from the predictions and the
\* labels of that same example.
LinesMatchRows ==
  out_file.state # "unopened" =>
    LET lines == RecordLines
        examples == Processed
    IN  /\ Len(lines) = Len(examples)
        /\ \A i \in DOMAIN lines :
             /\ lines[i].video_id = examples[i]
             /\ RowScoreIs(Row(examples[i]), lines[i].score)

\* Two readers have interleaved their records, a batch of two rows with
\* different scores was written, and every line is on disk.
LinesMatchRowsWitness ==
  /\ pc = "done" /\ FLAGS.num_readers = 2 /\ FLAGS.batch_size = 2
  /\ Len(RecordLines) = MaxRecords
  /\ RecordLines[1].score # RecordLines[2].score
  /\ \E i, j \in DOMAIN Emitted : i < j /\ Emitted[i] > Emitted[j]

\* The states of the output file on disk before anything is written.
InitialDisks ==
  {[exists |-> FALSE, lines |-> <<>>], [exists |-> TRUE, lines |-> <<OldLine>>]}

InvalidConfig == FLAGS.output_file = "" \/ FLAGS.input_data_pattern = ""

\* No reader thread, producer thread or close-on-stop thread was started.
NoThreadStarted ==
  /\ producer = "off" /\ ~cancelled
  /\ \A r \in Readers : reader[r].st = "off"
  /\ decoded.count = 0 /\ batches = <<>>

\* C5: with an empty input pattern or an empty output destination the run
\* fails with the configuration error and gets no further than the
\* validation: the file set is not matched, the output is not opened, no
\* checkpoint is looked up and no reader is started.
ConfigErrorFirst ==
  InvalidConfig =>
    /\ pc \in {"main", "failed"}
    /\ pc = "failed" => err = "ValueError"
    /\ pc = "main" => err = "none"
    /\ out_file.state = "unopened" /\ out_disk \in InitialDisks
    /\ latest_checkpoint = "unset" /\ restores = 0
    /\ NoThreadStarted

\* The run has failed on an empty output destination alone.
ConfigErrorFirstWitness ==
  /\ FLAGS.output_file = "" /\ FLAGS.input_data_pattern # ""
  /\ files # <<>> /\ checkpoint_found
  /\ pc = "failed" /\ err = "ValueError"

\* C6: when the pattern matches no file, the run fails with the error of
\* get_input_data_tensors (unless the flags or the model name were rejected
\* before the glob),
\* and the output file is neither created nor modified: it is never opened,
\* no checkpoint is looked up or restored and no reader is started.
NoInputFilesFails ==
  files = <<>> =>
    /\ pc \in {"main", "find_class", "build_graph", "failed"}
    /\ pc = "failed" =>
         err = IF InvalidConfig THEN "ValueError"
               ELSE IF FLAGS.model # "Model" THEN "StopIteration"
               ELSE "IOError"
    /\ pc # "failed" => err = "none"
    /\ out_file.state = "unopened" /\ out_disk \in InitialDisks
    /\ latest_checkpoint = "unset" /\ restores = 0
    /\ NoThreadStarted

\* The glob matched nothing, the run has failed with IOError, and the
\* existing output file still holds what it held.
NoInputFilesFailsWitness ==
  /\ files = <<>> /\ ~InvalidConfig /\ FLAGS.model = "Model"
  /\ pc = "failed" /\ err = "IOError"
  /\ out_disk = [exists |-> TRUE, lines |-> <<OldLine>>]

\* C7: when no checkpoint exists at the configured location, given as a
\* path or as a directory, the run fails on the lookup or on the restore:
\* no thread is started, no batch is read and nothing is scored.
MissingCheckpointFails ==
  ~checkpoint_found =>
    /\ pc \in {"main", "find_class", "build_graph", "open", "checkpoint",
               "restore", "unwind", "failed"}
    /\ restores = 0 /\ latest_checkpoint # "restored"
    /\ NoThreadStarted /\ batch = <<>> /\ RecordLines = <<>>
    /\ pc = "unwind" => err \in {"CheckpointNotFound", "RestoreError"}
    /\ (pc = "failed" /\ out_file.state # "unopened") =>
         err \in {"CheckpointNotFound", "RestoreError"}
    /\ latest_checkpoint = "None" => err = "CheckpointNotFound"

\* An explicit checkpoint path that names no checkpoint: the restore has
\* failed and the run has ended with the error.
MissingCheckpointFailsWitness ==
  /\ ~checkpoint_found /\ latest_checkpoint = "explicit"
  /\ pc = "failed" /\ err = "RestoreError"
  /\ out_file.state = "closed"

\* Every thread start_queue_runners started has ended.
ThreadsEnded ==
  /\ producer = "done"
  /\ \A r \in Readers : reader[r].st \in {"off", "done"}

\* C8 as stated: when an error other than end-of-stream is raised in the
\* consumer loop, then by the time it has left inference() the output file
\* was flushed and closed and the threads were joined.
ConsumerErrorCleanup ==
  (pc = "failed" /\ err = "RuntimeError") =>
    /\ out_file.state = "closed" /\ out_file.buf = <<>>
    /\ joined

\* The consumer error has left main(): the file was closed by the with
\* statement, and the threads are still running and were never joined.
ConsumerErrorUnjoined ==
  /\ pc = "failed" /\ err = "RuntimeError"
  /\ out_file.state = "closed" /\ coord.stop
  /\ ~joined /\ ~ThreadsEnded

\* C9: on a normal run end-of-stream is observed, then stop is requested,
\* then the buffer is flushed and the threads are joined, then the output
\* file is closed, exactly once; a closed file is never written (the run has
\* ended and everything written is on disk) and the file is never closed
\* while a started thread is unjoined.  On every run the file is closed at
\* most once, and only the unwinding of a consumer error closes it with
\* threads unjoined.
ShutdownOrder ==
  /\ closes <= 1
  /\ (out_file.state = "closed") <=> (closes = 1)
  /\ out_file.state = "closed" =>
       /\ pc \in {"done", "failed"}
       /\ out_file.buf = <<>> /\ out_disk.lines = Written
  /\ (coord.stop /\ ~coord.exc /\ err = "none") => eos
  /\ pc = "join" => coord.stop /\ out_file.buf = <<>>
  /\ joined => coord.stop /\ cancelled /\ ThreadsEnded
  /\ pc = "close" => joined /\ out_file.state = "open" /\ out_file.buf = <<>>
  /\ pc = "done" =>
       /\ err = "none" /\ eos /\ coord.stop /\ joined
       /\ closes = 1 /\ out_file.state = "closed"
       /\ Len(out_disk.lines) = 1 + decoded.count
  /\ (out_file.state = "closed" /\ err # "RuntimeError") =>
       joined \/ NoThreadStarted

\* A normal run over every record has shut down: the threads have ended and
\* the file, closed once, holds the header and the record lines.
ShutdownOrderWitness ==
  /\ pc = "done" /\ eos /\ joined /\ closes = 1
  /\ ThreadsEnded /\ FLAGS.num_readers = MaxReaders
  /\ Len(out_disk.lines) = 1 + MaxRecords

\* ------------------------------------------------------------- liveness
\* The steps of the main thread, of the producer thread and of reader r that
\* are not failures.
MainStep ==
  \/ MainValidate \/ FindClass \/ GetInputDataTensors \/ OpenOutFile
  \/ LookupCheckpoint \/ RestoreCheckpoint \/ StartQueueRunners \/ WriteHeader
  \/ SessRun \/ CatchOutOfRange \/ WriteLines \/ Flush \/ Join
  \/ CloseAndReturn \/ Unwind
ProducerStep == ProducerEnqueue \/ ProducerOutOfRange
ReaderStep(r) == ReaderRead(r) \/ ReaderEnqueue(r) \/ ReaderOutOfRange(r)

\* Every thread that can take a step eventually takes one: the threads are
\* operating-system threads, and a thread blocked on a queue is woken when
\* the queue changes.  The failures are not forced.
Fairness ==
  /\ WF_vars(MainStep)
  /\ WF_vars(ProducerStep)
  /\ \A r \in Readers : WF_vars(ReaderStep(r))
  /\ WF_vars(CloseOnStop)

LiveSpec == Init /\ [][Next]_vars /\ Fairness

\* A valid configuration, input files and an existing checkpoint.
ValidStart ==
  /\ ~InvalidConfig /\ FLAGS.model = "Model"
  /\ files # <<>> /\ checkpoint_found

\* sess.run or a reader has failed.
Faulted == coord.exc \/ err = "RuntimeError"

\* C10: from a valid start with an existing checkpoint, every fair run in
\* which nothing fails reaches the end of main(): the producer has delivered
\* each file for one epoch and closed the filename queue, every reader has
\* ended, the consumer has received end-of-stream, and no thread is left
\* waiting on a queue.
Terminates ==
  ValidStart =>
    <>(\/ Faulted
       \/ /\ pc = "done" /\ eos
          /\ epochs = num_epochs /\ filename_queue = [items |-> <<>>, closed |-> TRUE]
          /\ ThreadsEnded /\ runs_per_session = 0
          /\ batch_queue = [items |-> <<>>, closed |-> TRUE])

\* A run has ended in which one reader took MaxRecords records of one file
\* in one read with batch_size 1: more than the staging queue holds, so the
\* reader waited on the full queue and the consumer on the last batch.
TerminatesWitness ==
  /\ ValidStart /\ ~Faulted /\ pc = "done"
  /\ FLAGS.batch_size = 1 /\ ~FLAGS.frame_features
  /\ files = <<MaxRecords>>
  /\ num_examples_processed = MaxRecords

\* ------------------------------------------------------------- two runs
\* The program has ended normally and is started again with the same flags,
\* on the same files and the same checkpoint: main() starts afresh, and the
\* output file of the first run, set aside in previous_output, is the file
\* the second run opens.
Rerun ==
  /\ pc = "done" /\ previous_output = <<>>
  /\ previous_output' = out_disk.lines
  /\ latest_checkpoint' = "unset"
  /\ pc' = "main"
  /\ err' = "none"
  /\ out_file' = [state |-> "unopened", buf |-> <<>>]
  /\ closes' = 0
  /\ restores' = 0
  /\ coord' = [stop |-> FALSE, exc |-> FALSE]
  /\ joined' = FALSE
  /\ filename_queue' = [items |-> <<>>, closed |-> FALSE]
  /\ epochs' = 0
  /\ producer' = "off"
  /\ batch_queue' = [items |-> <<>>, closed |-> FALSE]
  /\ runs_per_session' = 0
  /\ reader' = [r \in Readers |-> IdleReader]
  /\ cancelled' = FALSE
  /\ num_examples_processed' = 0
  /\ batch' = <<>>
  /\ batches' = <<>>
  /\ decoded' = [ids |-> {}, count |-> 0, taken |-> <<>>]
  /\ eos' = FALSE
  /\ UNCHANGED <<FLAGS, files, checkpoint_found, out_disk>>

RerunNext == Next \/ Rerun

RerunSpec == Init /\ [][RerunNext]_vars

\* C11 as stated: a second run on the same input files, checkpoint and
\* configuration, for any num_readers, leaves an output file identical to
\* the first run's: the same lines in the same order.
SameOutputTwice ==
  (pc = "done" /\ previous_output # <<>>) => out_disk.lines = previous_output

\* Both runs have ended normally and wrote the same set of lines, but in a
\* different order.
DifferentOutputTwice ==
  /\ pc = "done" /\ previous_output # <<>>
  /\ Range(out_disk.lines) = Range(previous_output)
  /\ out_disk.lines # previous_output

\* --------------------------------------------------- further properties
\* The header lines among the lines written since the file was opened.
HeaderLines == SelectSeq(Written, LAMBDA l : l.kind = HeaderLine.kind)

\* C12: the output receives the header line exactly once per run, before
\* every record line: once the file is open it holds at most one header,
\* exactly one from the start of the loop on; whenever it holds a line the
\* first is the header and every other line is a record line, so no
\* summary line follows them.
HeaderOnce ==
  out_file.state # "unopened" =>
    /\ Len(HeaderLines) <= 1
    /\ pc \in {"run", "write", "flush", "join", "close", "done"} =>
         Len(HeaderLines) = 1
    /\ Written # <<>> =>
         /\ Written[1] = HeaderLine
         /\ \A i \in 2..Len(Written) : Written[i].kind = "record"
    /\ Len(Written) = Len(HeaderLines) + Len(RecordLines)

\* A run has ended with the header followed by a record line for every
\* record, and nothing else.
HeaderOnceWitness ==
  /\ pc = "done" /\ out_disk.lines[1] = HeaderLine
  /\ Len(HeaderLines) = 1 /\ Len(RecordLines) = MaxRecords
  /\ Len(out_disk.lines) = 1 + MaxRecords

\* The lifecycle state the main thread is in: INIT up to the construction of
\* the graph, RESTORING from the opening of the output file to the restore,
\* RUNNING from start_queue_runners through the loop, DRAINING from the
\* flush to the end of the with statement, STOPPED when main() has returned,
\* FAILED when an exception is on its way out or has left main().
Lifecycle ==
  CASE pc \in {"main", "find_class", "build_graph"} -> "INIT"
    [] pc \in {"open", "checkpoint", "restore"} -> "RESTORING"
    [] pc \in {"start", "header", "run", "write"} -> "RUNNING"
    [] pc \in {"flush", "join", "close"} -> "DRAINING"
    [] pc = "done" -> "STOPPED"
    [] OTHER -> "FAILED"

\* The state that follows each lifecycle state on the way to STOPPED; the
\* terminal states have none.
LifecycleSuccessor(state) ==
  CASE state = "INIT" -> {"RESTORING"}
    [] state = "RESTORING" -> {"RUNNING"}
    [] state = "RUNNING" -> {"DRAINING"}
    [] state = "DRAINING" -> {"STOPPED"}
    [] OTHER -> {}

\* C13: every step leaves the lifecycle state as it is, moves it to the next
\* state of INIT, RESTORING, RUNNING, DRAINING, STOPPED, or moves a
\* non-terminal state to FAILED; it never goes back.  The checkpoint is
\* restored at most once, in RESTORING, before any thread is started and
\* before any batch is fetched, and a run that is in RUNNING or beyond, has
\* started a thread or has fetched a batch has restored it exactly once.
LifecycleForward ==
  [][/\ \/ Lifecycle' = Lifecycle
        \/ Lifecycle' \in LifecycleSuccessor(Lifecycle)
        \/ Lifecycle' = "FAILED" /\ Lifecycle # "STOPPED"
     /\ restores' # restores =>
          /\ restores = 0 /\ restores' = 1
          /\ Lifecycle = "RESTORING"
          /\ NoThreadStarted /\ batch = <<>>
     /\ Lifecycle' \in {"RUNNING", "DRAINING", "STOPPED"} => restores' = 1
     /\ (producer' # "off" \/ batches' # <<>>) => restores' = 1]_vars

\* A run has gone through every state to STOPPED with one restore, batches
\* fetched and all threads ended.
LifecycleForwardWitness ==
  /\ Lifecycle = "STOPPED" /\ restores = 1
  /\ Len(batches) >= 2 /\ ThreadsEnded

\* The number of examples the reader threads hold in enqueues that have not
\* completed.
RECURSIVE PendingCount(_)
PendingCount(r) ==
  IF r = 0 THEN 0 ELSE Len(reader[r].pend) + PendingCount(r - 1)

\* Reader r is in an enqueue that the full staging queue does not let go on.
BlockedOnFull(r) ==
  /\ reader[r].st = "enq" /\ reader[r].pend # <<>>
  /\ Len(batch_queue.items) = 3 * FLAGS.batch_size

\* C14: the staging queue never holds more than 3 * batch_size examples; a
\* reader whose enqueue does not fit cannot go on while the queue is full
\* and keeps what did not fit: every decoded example is in a batch, in the
\* queue or pending in a reader's enqueue.  (Only the cancellation of the
\* pending enqueues, at the shutdown that follows a reader's failure, gives
\* up what a reader holds.)
StagingBounded ==
  /\ Len(batch_queue.items) <= 3 * FLAGS.batch_size
  /\ \A r \in Readers : BlockedOnFull(r) => ~ENABLED ReaderEnqueue(r)
  /\ ~coord.exc =>
       decoded.count = Len(Emitted) + Len(batch_queue.items) + PendingCount(MaxReaders)

\* A reader waits with an example that does not fit while the staging queue
\* holds 3 * batch_size examples.
StagingBoundedWitness ==
  /\ ~coord.stop /\ pc = "run"
  /\ \E r \in Readers : BlockedOnFull(r)
  /\ Len(batch_queue.items) = 3 * FLAGS.batch_size

\* The records of all the matched files.
AllRecords ==
  UNION {Range(FileRecords(f, 0, files[f])) : f \in 1..Len(files)}

\* The files some reader is in the middle of.
FilesInHand == {reader[r].cur : r \in Readers} \ {0}

\* C15: under every interleaving of the readers, every matched file is taken
\* off the shared file name queue by one reader and read once: no file is
\* taken twice, a file still queued has not been taken, no two readers are
\* in the same file, no record is decoded twice, and in a run that ends
\* normally the files were taken in the order of the list, none skipped, and
\* every record of every file was decoded.
FilesReadOnce ==
  LET taken == decoded.taken
  IN  /\ \A i, j \in 1..Len(taken) : i # j => taken[i] # taken[j]
      /\ Range(filename_queue.items) \cap Range(taken) = {}
      /\ \A i, j \in 1..Len(filename_queue.items) :
           i # j => filename_queue.items[i] # filename_queue.items[j]
      /\ FilesInHand \subseteq Range(taken)
      /\ \A r1, r2 \in Readers :
           (r1 # r2 /\ reader[r1].cur # 0) => reader[r1].cur # reader[r2].cur
      /\ decoded.count = Cardinality(decoded.ids)
      /\ decoded.ids \subseteq AllRecords
      /\ EndedNormally =>
           /\ taken = [f \in 1..Len(files) |-> f]
           /\ decoded.ids = AllRecords
           /\ decoded.count = SumSeq(files)

\* Two readers are in the middle of two files at once, the second reader in
\* the first file of the list.
FilesReadOnceWitness ==
  /\ FLAGS.num_readers = 2 /\ Len(files) = 2
  /\ reader[2].cur = 1 /\ reader[1].cur = 2
  /\ decoded.taken = <<1, 2>>

\* No reader thread is reading or holds examples, and nothing is staged.
ReadersCompleted ==
  /\ \A r \in Readers : reader[r].st \in {"off", "done"}
  /\ PendingCount(MaxReaders) = 0
  /\ batch_queue.items = <<>>

\* C16 as stated: the consumer is given end-of-stream only after every
\* reader has completed and the staging queue is empty.
EndOfStreamAfterReaders == eos => ReadersCompleted

\* A reader failed, and the consumer was given end-of-stream while another
\* reader thread had not finished and records of the files were not decoded.
EndOfStreamWhileReading ==
  /\ eos /\ coord.exc
  /\ \E r \in Readers : reader[r].st \in {"idle", "enq"}
  /\ decoded.ids # AllRecords

\* C17: once a reader has reported its failure to the coordinator, the
\* consumer loop is left through its should_stop test, not as on the end of
\* the stream, and without an exception of the main thread before the join;
\* the run does not reach sess.close() or return, and a run that returns was
\* given end-of-stream with no failure reported, every decoded example
\* written.
ReaderFailureLeavesByTest ==
  /\ coord.exc =>
       /\ ~eos
       /\ pc \notin {"close", "done"}
       /\ pc \in {"header", "run", "write", "flush", "join"} => err = "none"
  /\ pc \in {"unwind", "failed"} /\ joined => (coord.exc /\ err = "ReaderError")
  /\ pc = "done" =>
       /\ eos /\ ~coord.exc
       /\ Range(Emitted) = decoded.ids
       /\ Len(RecordLines) = decoded.count

\* A run failed with the reader's error re-raised by the join, after the
\* consumer loop was left as on the end of the stream.
ReaderFailureSeenAsEnd ==
  /\ pc = "failed" /\ err = "ReaderError" /\ joined
  /\ coord.exc /\ eos

\* C18: after every completed iteration of the consumer loop (the main
\* thread is not between sess.run and writelines), num_examples_processed
\* equals the number of record lines written so far and the sum of the sizes
\* of the batches consumed so far; no step decreases the counter, and only
\* the loop body changes it, by the size of the batch it writes.
CounterMatchesLines ==
  [][ /\ pc' # "write" =>
           /\ num_examples_processed' = Len(RecordLines')
           /\ num_examples_processed' = SumSeq(Sizes')
      /\ num_examples_processed' >= num_examples_processed
      /\ num_examples_processed' # num_examples_processed =>
           /\ pc = "write"
           /\ num_examples_processed' = num_examples_processed + Len(batch)
    ]_vars

\* Two iterations are completed, the second on a batch smaller than
\* batch_size, and the loop goes on.
CounterMatchesLinesWitness ==
  /\ pc = "run" /\ ~coord.stop
  /\ FLAGS.batch_size = 2 /\ Sizes = <<2, 1>>
  /\ num_examples_processed = 3 /\ Len(RecordLines) = 3

\* C19: the output file is opened, and truncated, before the checkpoint is
\* looked up and before the header is written: a checkpoint was looked up
\* or a line written only with the file opened, an opened file holds nothing
\* of what it held before, nothing is written until the restore is over, and
\* a run that fails because no checkpoint is found leaves the file existing
\* and empty, without the header and without a record line.
OutputOpenedFirst ==
  /\ out_file.state = "unopened" =>
       /\ latest_checkpoint = "unset" /\ restores = 0
       /\ out_disk \in InitialDisks /\ out_file.buf = <<>>
  /\ out_file.state # "unopened" =>
       /\ out_disk.exists
       /\ \A i \in 1..Len(out_disk.lines) : out_disk.lines[i] # OldLine
  /\ pc \in {"checkpoint", "restore"} =>
       /\ out_file.state = "open" /\ Written = <<>>
  /\ err \in {"CheckpointNotFound", "RestoreError"} =>
       /\ pc \in {"unwind", "failed"}
       /\ out_disk = [exists |-> TRUE, lines |-> <<>>]
       /\ out_file.buf = <<>>
       /\ HeaderLines = <<>> /\ RecordLines = <<>>
       /\ pc = "failed" => out_file.state = "closed"

\* The directory holds no checkpoint: the run has failed on the lookup and
\* the output file is closed, existing and empty.
OutputOpenedFirstWitness ==
  /\ pc = "failed" /\ err = "CheckpointNotFound" /\ latest_checkpoint = "None"
  /\ out_file.state = "closed" /\ closes = 1
  /\ out_disk = [exists |-> TRUE, lines |-> <<>>]

\* C20: for a row without a true label format_lines takes k = 1 and writes
\* the score 1, whatever the row's predictions are and whichever index the
\* partition picks.
LabelLessScoresOne ==
  (pc \in {"run", "flush"} /\ batch # <<>>) =>
    \A i \in DOMAIN batch :
      batch[i].labels = {} =>
        /\ TopK(Labels(batch)[i]) = 1
        /\ LastLines[i].score = [num |-> 1, den |-> 1]
        /\ \A lines \in format_lines(VideoIds(batch), Predictions(batch), Labels(batch)) :
             lines[i].score = [num |-> 1, den |-> 1]

\* A row without a true label, whose predictions differ between the classes,
\* has been written with score 1.
LabelLessScoresOneWitness ==
  /\ pc \in {"run", "flush"} /\ Len(batch) = 1
  /\ batch[1].labels = {}
  /\ batch[1].pred[1] = MaxPred /\ batch[1].pred[2] = 0
  /\ LastLines[1].score = [num |-> 1, den |-> 1]

====
